---- MODULE Spec2Model ----
(***************************************************************************)
(* Model of the ManagerAgent orchestration loop                            *)
(* (src/idrissa/src/core/agents/manager-agent/manager-agent.ts).           *)
(*                                                                         *)
(* One agent object.  Its fields are the variables isSuccess, isFailure,   *)
(* reason, retries and maxRetries; pc is the position of the single        *)
(* thread of control inside launch() / run() / defineNextTask() /          *)
(* executeTask().  Every awaited collaborator call is a step that either   *)
(* returns or fails; the reporter is a pure sink and is taken to return.   *)
(* The variables after `result` are observers: what a set of test doubles  *)
(* around the agent would have recorded.                                   *)
(***************************************************************************)
EXTENDS Integers, Sequences, FiniteSets, TLC

VARIABLES
    pc,          \* position of the thread of control
    maxRetries,  \* config.maxRetries
    isSuccess,   \* ManagerAgent.isSuccess
    isFailure,   \* ManagerAgent.isFailure
    reason,      \* ManagerAgent.reason
    retries,     \* ManagerAgent.retries
    task,        \* the Task of the current iteration (NoTask before the first)
    ai,          \* 1-based position of the for-loop of executeTask in task.actions
    history,     \* what taskManager.add has received, in order
    endGoal,     \* what taskManager.setEndGoal has received
    result,      \* what the promise of run() resolved to (NoResult while unresolved)
    planCalls,   \* number of defineNextTask() calls made
    evalCalls,   \* number of evaluateTaskCompletion() calls made
    verdicts,    \* the isCompleted values the evaluator has returned, in order
    triggers,    \* the trigger actions dispatched so far, in order
    threw,       \* per attempted action of the current task: did executeAction throw
    planOk,      \* did invokeAndParse return for the current task
    lastCalls,   \* reporter/DOM/browser calls made by the latest executeAction
    browserUrl,  \* the URL the browser was launched at ("" before)
    progressPending \* a reportProgress call that was not awaited is outstanding

vars == <<pc, maxRetries, isSuccess, isFailure, reason, retries, task, ai,
          history, endGoal, result, planCalls, evalCalls, verdicts, triggers,
          threw, planOk, lastCalls, browserUrl, progressPending>>

(***************************************************************************)
(* Bounds of the model.                                                    *)
(***************************************************************************)
MaxRetriesBound == 2   \* maxRetries ranges over 0..MaxRetriesBound
MaxActions == 2        \* the plan provider returns at most this many actions
MaxIter == 3           \* at most this many planning calls are explored

(***************************************************************************)
(* Data model.                                                             *)
(***************************************************************************)
ActionNames ==
    {"clickElement", "fillInput", "scrollDown", "scrollUp", "takeScreenshot",
     "goToUrl", "triggerSuccess", "triggerFailure"}

\* The reason a plan gives to a trigger action: one per kind, so that a
\* change of reason is visible.
TriggerReason(name) == IF name = "triggerSuccess" THEN "done" ELSE "gave up"

ManagerAgentAction(name) ==
    [name |-> name,
     reason |-> IF name \in {"triggerSuccess", "triggerFailure"}
                THEN TriggerReason(name) ELSE ""]

Actions == {ManagerAgentAction(n) : n \in ActionNames}

RECURSIVE SeqsUpTo(_, _)
SeqsUpTo(S, n) ==
    IF n = 0 THEN {<<>>}
    ELSE LET shorter == SeqsUpTo(S, n - 1)
         IN  shorter \cup {Append(s, x) : s \in {t \in shorter : Len(t) = n - 1}, x \in S}

Plans == SeqsUpTo(Actions, MaxActions)

NoTask == [id |-> 0, goal |-> "", actions |-> <<>>, status |-> "None", resultReason |-> ""]

TaskInitPending(id, goal, actions) ==
    [id |-> id, goal |-> goal, actions |-> actions, status |-> "Pending", resultReason |-> ""]

TaskComplete(t, r) == [t EXCEPT !.status = "Completed", !.resultReason = r]

TaskFail(t, r) == [t EXCEPT !.status = "Failed", !.resultReason = r]

NoResult == [status |-> "none", reason |-> ""]

\* What the task history keeps of a task handed to add(): its identity and
\* the fields that evaluation mutates (the goal and the action list of a task
\* are fixed at creation).
TaskManagerAdd(h, t) ==
    Append(h, [id |-> t.id, goal |-> t.goal, status |-> t.status,
               resultReason |-> t.resultReason])

\* The goal a parsed plan names, and the reason an evaluator gives.
NextGoals == {"Display the login form."}
EvaluatorReasons == {"judged"}

(***************************************************************************)
(* The pure parts of the agent.                                            *)
(***************************************************************************)
\* The outcome fields of the agent, as one record.
Outcome == [isSuccess |-> isSuccess, isFailure |-> isFailure, reason |-> reason]

onFailure_Exclusive(o, r) == [o EXCEPT !.isSuccess = FALSE, !.isFailure = TRUE, !.reason = r]

onFailure_KeepsReason(o, r) == [o EXCEPT !.isFailure = TRUE]

onSuccess(o, r) == [o EXCEPT !.isSuccess = TRUE, !.reason = r]

onFailure(o, r) == [o EXCEPT !.isFailure = TRUE, !.reason = r]

incrementRetries_Noop(r) == r

incrementRetries(r) == r + 1

resetRetries_Keeps(r) == r

resetRetries(r) == 0

isCompleted_SuccessOnly == isSuccess

isCompleted_FailureOnly == isFailure

isCompleted_Never == FALSE

isCompleted == isSuccess \/ isFailure

BudgetExhausted_Strict(r, k) == r > k

BudgetExhausted_Never(r, k) == FALSE

BudgetExhausted(r, k) == r >= k

RunStatus(s) == IF s THEN "success" ELSE "failure"

FallbackTask_Screenshot(id) ==
    TaskInitPending(id, "Keep trying", <<ManagerAgentAction("takeScreenshot")>>)

\* The task defineNextTask returns when invokeAndParse fails.
FallbackTask(id) == TaskInitPending(id, "Keep trying", <<>>)

IsTrigger(a) == a.name \in {"triggerSuccess", "triggerFailure"}

\* Whether executeAction resolves an index to a coordinate first.
NeedsIndex(a) == a.name \in {"clickElement", "fillInput"}

\* (clickElement clicking before it highlights its target.)
ActionEffects_ClickFirst(a) ==
    CASE a.name = "clickElement" ->
            <<"resetHighlightElements", "mouseClick", "highlightElementPointer",
              "resetHighlightElements">>
      [] a.name = "fillInput" ->
            <<"highlightElementPointer", "fillInput", "resetHighlightElements">>
      [] a.name = "scrollDown" ->
            <<"scrollDown", "resetHighlightElements", "highlightElementWheel(down)">>
      [] a.name = "scrollUp" ->
            <<"scrollUp", "resetHighlightElements", "highlightElementWheel(up)">>
      [] a.name = "takeScreenshot" ->
            <<"resetHighlightElements", "highlightForSoM">>
      [] a.name = "goToUrl" -> <<"goToUrl">>
      [] OTHER -> <<>>

\* The awaited DOM/browser calls of each case of the switch, in order.
ActionEffects(a) ==
    CASE a.name = "clickElement" ->
            <<"resetHighlightElements", "highlightElementPointer", "mouseClick",
              "resetHighlightElements">>
      [] a.name = "fillInput" ->
            <<"highlightElementPointer", "fillInput", "resetHighlightElements">>
      [] a.name = "scrollDown" ->
            <<"scrollDown", "resetHighlightElements", "highlightElementWheel(down)">>
      [] a.name = "scrollUp" ->
            <<"scrollUp", "resetHighlightElements", "highlightElementWheel(up)">>
      [] a.name = "takeScreenshot" ->
            <<"resetHighlightElements", "highlightForSoM">>
      [] a.name = "goToUrl" -> <<"goToUrl">>
      [] OTHER -> <<>>

\* (goToUrl without its break falls through to the next case.)
ActionOutcome_FallThrough(a, o) ==
    CASE a.name \in {"goToUrl", "triggerSuccess"} -> onSuccess(o, a.reason)
      [] a.name = "triggerFailure" -> onFailure(o, a.reason)
      [] OTHER -> o

\* The outcome fields after the switch of executeAction has run to its break.
ActionOutcome(a, o) ==
    CASE a.name = "triggerSuccess" -> onSuccess(o, a.reason)
      [] a.name = "triggerFailure" -> onFailure(o, a.reason)
      [] OTHER -> o

\* executeAction(a): found is what getIndexSelector answers, failAt the
\* position in ActionEffects(a) of the call that fails (0: none does).
\* The result is the calls made (getIndexSelector with its answer), whether
\* the method threw, and the outcome.
executeAction(a, o, found, failAt) ==
    LET pre == <<"reportAction">> \o
               (IF NeedsIndex(a)
                THEN <<IF found THEN "getIndexSelector:coordinates"
                                ELSE "getIndexSelector:null">>
                ELSE <<>>)
        eff == ActionEffects(a)
    IN  IF NeedsIndex(a) /\ ~found
        THEN [calls |-> pre, threw |-> TRUE, outcome |-> o]
        ELSE IF failAt \in 1..Len(eff)
        THEN [calls |-> pre \o SubSeq(eff, 1, failAt), threw |-> TRUE, outcome |-> o]
        ELSE [calls |-> pre \o eff \o <<"reportActionDone">>, threw |-> FALSE,
              outcome |-> ActionOutcome(a, o)]

\* The for-loop of executeTask: the position after an action was attempted.
NextActionIndex_Abort(i, th, n) == IF th THEN n + 1 ELSE i + 1

NextActionIndex(i, th, n) == i + 1

Init ==
    /\ pc = "created"
    /\ maxRetries \in 0..MaxRetriesBound
    /\ isSuccess = FALSE
    /\ isFailure = FALSE
    /\ reason = ""
    /\ retries = 0
    /\ task = NoTask
    /\ ai = 1
    /\ history = <<>>
    /\ endGoal = ""
    /\ result = NoResult
    /\ planCalls = 0
    /\ evalCalls = 0
    /\ verdicts = <<>>
    /\ triggers = <<>>
    /\ threw = <<>>
    /\ planOk = TRUE
    /\ lastCalls = <<>>
    /\ browserUrl = ""
    /\ progressPending = FALSE

(***************************************************************************)
(* launch()                                                                *)
(***************************************************************************)
\* (launch() passing its arguments the wrong way round.)
LaunchArgs_Swapped ==
    IF result = NoResult
    THEN [startUrl |-> "initialPrompt", initialPrompt |-> "startUrl"]
    ELSE [startUrl |-> "otherPrompt", initialPrompt |-> "otherUrl"]

\* The arguments of launch(startUrl, initialPrompt): those of the first call,
\* and those of a call made after run() has returned.
LaunchArgs ==
    IF result = NoResult
    THEN [startUrl |-> "startUrl", initialPrompt |-> "initialPrompt"]
    ELSE [startUrl |-> "otherUrl", initialPrompt |-> "otherPrompt"]

BrowserLaunchReturns ==
    /\ pc = "created"
    /\ browserUrl' = LaunchArgs.startUrl
    /\ pc' = "setEndGoal"
    /\ UNCHANGED <<maxRetries, isSuccess, isFailure, reason, retries, task, ai,
                   history, endGoal, result, planCalls, evalCalls, verdicts,
                   triggers, threw, planOk, lastCalls, progressPending>>

BrowserLaunchFails ==
    /\ pc = "created"
    /\ pc' = "launchFailed"
    /\ UNCHANGED <<maxRetries, isSuccess, isFailure, reason, retries, task, ai,
                   history, endGoal, result, planCalls, evalCalls, verdicts,
                   triggers, threw, planOk, lastCalls, browserUrl, progressPending>>

\* taskManager.setEndGoal(initialPrompt), then run() is entered.
SetEndGoal ==
    /\ pc = "setEndGoal"
    /\ endGoal' = LaunchArgs.initialPrompt
    /\ pc' = "loop"
    /\ UNCHANGED <<maxRetries, isSuccess, isFailure, reason, retries, task, ai,
                   history, result, planCalls, evalCalls, verdicts,
                   triggers, threw, planOk, lastCalls, browserUrl, progressPending>>

\* taskManager.setEndGoal throws: launch() rejects before run() is entered.
SetEndGoalFails ==
    /\ pc = "setEndGoal"
    /\ pc' = "launchFailed"
    /\ UNCHANGED <<maxRetries, isSuccess, isFailure, reason, retries, task, ai,
                   history, endGoal, result, planCalls, evalCalls, verdicts,
                   triggers, threw, planOk, lastCalls, browserUrl, progressPending>>

(***************************************************************************)
(* run()                                                                   *)
(***************************************************************************)
\* The while condition is false: resolve with the recorded outcome.
LoopExit ==
    /\ pc = "loop"
    /\ isCompleted
    /\ result' = [status |-> RunStatus(isSuccess), reason |-> reason]
    /\ pc' = "resolved"
    /\ UNCHANGED <<maxRetries, isSuccess, isFailure, reason, retries, task, ai,
                   history, endGoal, planCalls, evalCalls, verdicts,
                   triggers, threw, planOk, lastCalls, browserUrl, progressPending>>

\* The retry-budget check at the top of the loop body fires.
MaxRetriesReached ==
    /\ pc = "loop"
    /\ ~isCompleted
    /\ BudgetExhausted(retries, maxRetries)
    /\ LET o == onFailure(Outcome, "Max retries reached")
       IN  /\ isSuccess' = o.isSuccess
           /\ isFailure' = o.isFailure
           /\ reason' = o.reason
    /\ result' = [status |-> "failure", reason |-> "Max retries reached"]
    /\ pc' = "resolved"
    /\ UNCHANGED <<maxRetries, retries, task, ai, history, endGoal, planCalls,
                   evalCalls, verdicts, triggers, threw, planOk, lastCalls, browserUrl, progressPending>>

\* reportProgress(true), then defineNextTask() is entered and asks the DOM
\* provider for its snapshot.
StartIteration ==
    /\ pc = "loop"
    /\ ~isCompleted
    /\ ~BudgetExhausted(retries, maxRetries)
    /\ planCalls < MaxIter
    /\ planCalls' = planCalls + 1
    /\ pc' = "getInteractiveElements"
    /\ UNCHANGED <<maxRetries, isSuccess, isFailure, reason, retries, task, ai,
                   history, endGoal, result, evalCalls, verdicts,
                   triggers, threw, planOk, lastCalls, browserUrl, progressPending>>

\* A failure that nothing catches inside the async executor of run(): the
\* executor stops and the promise of run() is never resolved.
Rejected ==
    /\ pc' = "rejected"
    /\ UNCHANGED <<maxRetries, isSuccess, isFailure, reason, retries, task, ai,
                   history, endGoal, result, planCalls, evalCalls, verdicts,
                   triggers, threw, planOk, lastCalls, browserUrl, progressPending>>

(***************************************************************************)
(* defineNextTask()                                                        *)
(***************************************************************************)
Goto(from, to) ==
    /\ pc = from
    /\ pc' = to
    /\ UNCHANGED <<maxRetries, isSuccess, isFailure, reason, retries, task, ai,
                   history, endGoal, result, planCalls, evalCalls, verdicts,
                   triggers, threw, planOk, lastCalls, browserUrl, progressPending>>

GetInteractiveElementsReturns == Goto("getInteractiveElements", "getSerializedTasks")

GetInteractiveElementsFails == pc = "getInteractiveElements" /\ Rejected

GetSerializedTasksReturns == Goto("getSerializedTasks", "getPageUrl")

GetSerializedTasksFails == pc = "getSerializedTasks" /\ Rejected

GetPageUrlReturns == Goto("getPageUrl", "invokeAndParse")

GetPageUrlFails == pc = "getPageUrl" /\ Rejected

\* The task returned by defineNextTask is reported and executeTask entered.
EnterExecuteTask(t, ok) ==
    /\ task' = t
    /\ planOk' = ok
    /\ ai' = 1
    /\ threw' = <<>>
    /\ lastCalls' = <<>>
    /\ pc' = "executeTask"
    /\ UNCHANGED <<maxRetries, isSuccess, isFailure, reason, retries,
                   history, endGoal, result, planCalls, evalCalls, verdicts,
                   triggers, browserUrl, progressPending>>

InvokeAndParseReturns ==
    /\ pc = "invokeAndParse"
    /\ \E g \in NextGoals, as \in Plans :
          EnterExecuteTask(TaskInitPending(planCalls, g, as), TRUE)

InvokeAndParseFails ==
    /\ pc = "invokeAndParse"
    /\ EnterExecuteTask(FallbackTask(planCalls), FALSE)

(***************************************************************************)
(* executeTask()                                                           *)
(***************************************************************************)
\* What one executeAction(a) can do, over the answers of its collaborators.
ExecuteActionResults(a, o) ==
    {executeAction(a, o, found, failAt) :
        found \in (IF NeedsIndex(a) THEN BOOLEAN ELSE {TRUE}),
        failAt \in 0..Len(ActionEffects(a))}

\* One turn of the for-loop: executeAction inside its try/catch.
ExecuteAction ==
    /\ pc = "executeTask"
    /\ ai <= Len(task.actions)
    /\ \E r \in ExecuteActionResults(task.actions[ai], Outcome) :
          /\ isSuccess' = r.outcome.isSuccess
          /\ isFailure' = r.outcome.isFailure
          /\ reason' = r.outcome.reason
          /\ lastCalls' = r.calls
          /\ threw' = Append(threw, r.threw)
          /\ triggers' = IF IsTrigger(task.actions[ai])
                         THEN Append(triggers, task.actions[ai]) ELSE triggers
          /\ ai' = NextActionIndex(ai, r.threw, Len(task.actions))
    /\ UNCHANGED <<pc, maxRetries, retries, task, history, endGoal, result,
                   planCalls, evalCalls, verdicts, planOk, browserUrl, progressPending>>

\* The task as mutated by the verdict, and the retry counter after it.
Evaluated(t, v, r) == IF v THEN TaskComplete(t, r) ELSE TaskFail(t, r)

RetriesAfter(v, n) == IF v THEN resetRetries(n) ELSE incrementRetries(n)

\* The evaluator returns: the task is mutated, the counter updated, and the
\* task handed to taskManager.add.  The locals of the iteration then go out
\* of scope.
AfterEvaluation(v, r) ==
    /\ retries' = RetriesAfter(v, retries)
    /\ verdicts' = Append(verdicts, v)
    /\ evalCalls' = evalCalls + 1
    /\ task' = NoTask
    /\ ai' = 1
    /\ threw' = <<>>
    /\ planOk' = TRUE
    /\ lastCalls' = <<>>
    /\ UNCHANGED <<maxRetries, isSuccess, isFailure, reason, endGoal, result,
                   planCalls, triggers, browserUrl>>

\* taskManager.add returns, reportProgress(false, task) is called without
\* being awaited, executeTask returns.
EvaluatorReturns ==
    /\ pc = "executeTask"
    /\ ai > Len(task.actions)
    /\ \E v \in BOOLEAN, r \in EvaluatorReasons :
          /\ AfterEvaluation(v, r)
          /\ history' = TaskManagerAdd(history, Evaluated(task, v, r))
    /\ progressPending' = TRUE
    /\ pc' = "loop"

\* The reporter finishes the reportProgress call that executeTask left behind.
ReportProgressCompletes ==
    /\ progressPending
    /\ progressPending' = FALSE
    /\ UNCHANGED <<pc, maxRetries, isSuccess, isFailure, reason, retries, task, ai,
                   history, endGoal, result, planCalls, evalCalls, verdicts,
                   triggers, threw, planOk, lastCalls, browserUrl>>

\* The evaluator returns and taskManager.add fails.
EvaluatorReturnsAddFails ==
    /\ pc = "executeTask"
    /\ ai > Len(task.actions)
    /\ \E v \in BOOLEAN, r \in EvaluatorReasons : AfterEvaluation(v, r)
    /\ history' = history
    /\ progressPending' = progressPending
    /\ pc' = "rejected"

\* The evaluator fails: the body of run() stops with the task still Pending.
\* The observers of the iteration are cleared as after any evaluation.
EvaluatorFails ==
    /\ pc = "executeTask"
    /\ ai > Len(task.actions)
    /\ evalCalls' = evalCalls + 1
    /\ threw' = <<>>
    /\ lastCalls' = <<>>
    /\ pc' = "rejected"
    /\ UNCHANGED <<maxRetries, isSuccess, isFailure, reason, retries, task, ai,
                   history, endGoal, result, planCalls, verdicts, triggers,
                   planOk, browserUrl, progressPending>>

(***************************************************************************)
(* Calls made on the agent after run() has returned.                       *)
(***************************************************************************)
\* run() is called again on the same agent: no field is reset on entry.
RunAgain ==
    /\ pc = "resolved"
    /\ pc' = "loop"
    /\ UNCHANGED <<maxRetries, isSuccess, isFailure, reason, retries, task, ai,
                   history, endGoal, result, planCalls, evalCalls, verdicts,
                   triggers, threw, planOk, lastCalls, browserUrl, progressPending>>

\* launch() is called again on the same agent, with other arguments.
LaunchAgain ==
    /\ pc = "resolved"
    /\ pc' = "created"
    /\ UNCHANGED <<maxRetries, isSuccess, isFailure, reason, retries, task, ai,
                   history, endGoal, result, planCalls, evalCalls, verdicts,
                   triggers, threw, planOk, lastCalls, browserUrl, progressPending>>

\* The steps in which every collaborator returns, or fails where the agent
\* catches the failure.
NextReturning ==
    \/ BrowserLaunchReturns
    \/ SetEndGoal
    \/ LoopExit
    \/ MaxRetriesReached
    \/ StartIteration
    \/ GetInteractiveElementsReturns
    \/ GetSerializedTasksReturns
    \/ GetPageUrlReturns
    \/ InvokeAndParseReturns
    \/ InvokeAndParseFails
    \/ ExecuteAction
    \/ EvaluatorReturns
    \/ ReportProgressCompletes

Next ==
    \/ NextReturning
    \/ BrowserLaunchFails
    \/ SetEndGoalFails
    \/ GetInteractiveElementsFails
    \/ GetSerializedTasksFails
    \/ GetPageUrlFails
    \/ EvaluatorReturnsAddFails
    \/ EvaluatorFails
    \/ RunAgain
    \/ LaunchAgain

Spec == Init /\ [][Next]_vars

\* Every collaborator call returns (or fails where the agent catches it), and
\* the thread of control is never suspended forever.
SpecReturning == Init /\ [][NextReturning]_vars /\ WF_vars(NextReturning)

(***************************************************************************)
(* What the observers say, in terms independent of the agent's own code.   *)
(***************************************************************************)
\* The number of FALSE verdicts at the end of a verdict sequence.
RECURSIVE TrailingFalse(_)
TrailingFalse(vs) ==
    IF vs = <<>> \/ vs[Len(vs)] THEN 0
    ELSE 1 + TrailingFalse(SubSeq(vs, 1, Len(vs) - 1))

\* Whether vs holds n consecutive FALSE verdicts somewhere.
HasFalseRun(vs, n) ==
    \E i \in 0..Len(vs) : TrailingFalse(SubSeq(vs, 1, i)) >= n

Dispatched(name) == \E i \in DOMAIN triggers : triggers[i].name = name

MaxRetriesResult == [status |-> "failure", reason |-> "Max retries reached"]

\* The result the dispatched trigger actions call for: success if any of
\* them was a triggerSuccess, with the reason of the last one.
TriggerResult ==
    [status |-> IF Dispatched("triggerSuccess") THEN "success" ELSE "failure",
     reason |-> triggers[Len(triggers)].reason]

PlanningPcs == {"getInteractiveElements", "getSerializedTasks", "getPageUrl", "invokeAndParse"}

(***************************************************************************)
(* C1: after launch() has succeeded, run() always resolves: when the async *)
(* body of run() has stopped on a failing collaborator call, the promise   *)
(* of run() has a result.  (The code leaves it unresolved.)                *)
(***************************************************************************)
C1_RunAlwaysResolves == pc = "rejected" => result # NoResult

(***************************************************************************)
(* C2, as claimed: once maxRetries consecutive evaluations have returned   *)
(* isCompleted=false, what run() returns is {failure, "Max retries         *)
(* reached"}, for every plan.                                              *)
(***************************************************************************)
C2_AlwaysMaxRetries ==
    (pc = "resolved" /\ TrailingFalse(verdicts) >= maxRetries) => result = MaxRetriesResult

(***************************************************************************)
(* C2, amended: once maxRetries consecutive evaluations have returned      *)
(* isCompleted=false, no planning call and no action dispatch is under way *)
(* or made any more, and what run() resolves to is {failure, "Max retries  *)
(* reached"} unless a trigger action was dispatched, in which case it is   *)
(* the result the trigger actions call for.                                *)
(***************************************************************************)
C2_BudgetStopsLoop ==
    TrailingFalse(verdicts) >= maxRetries =>
        /\ pc \notin PlanningPcs \cup {"executeTask"}
        /\ planCalls = Len(verdicts)
        /\ pc = "resolved" =>
              result = IF triggers = <<>> THEN MaxRetriesResult ELSE TriggerResult

C2_Witness ==
    /\ pc = "resolved"
    /\ maxRetries = 2
    /\ verdicts = <<FALSE, FALSE>>
    /\ planCalls = 2
    /\ triggers = <<>>
    /\ result = MaxRetriesResult

(***************************************************************************)
(* C3: the retry counter is the number of isCompleted=false verdicts since *)
(* the last isCompleted=true verdict (true sets it to 0, false adds 1),    *)
(* and "Max retries reached" is returned only if maxRetries consecutive    *)
(* false verdicts occurred.                                                *)
(***************************************************************************)
C3_ConsecutiveFailures ==
    /\ retries = TrailingFalse(verdicts)
    /\ result = MaxRetriesResult => HasFalseRun(verdicts, maxRetries)

\* fail, succeed, fail under maxRetries = 2: the loop is still running.
C3_Witness ==
    /\ maxRetries = 2
    /\ verdicts = <<FALSE, TRUE, FALSE>>
    /\ retries = 1
    /\ pc = "loop"
    /\ ~isFailure
(***************************************************************************)
(* C4: the outcome only moves forward and is never both: isSuccess and     *)
(* isFailure are never both true, and once one of them is set neither the  *)
(* flags nor the reason change again.  (The code sets both, and rewrites   *)
(* the reason, when a task holds several trigger actions.)                 *)
(***************************************************************************)
C4_OutcomeOnlyForward ==
    /\ [](~(isSuccess /\ isFailure))
    /\ [][(isSuccess \/ isFailure) => UNCHANGED <<isSuccess, isFailure, reason>>]_vars

(***************************************************************************)
(* C5, as claimed: once the outcome is Success or Failure nothing more     *)
(* happens: no action is dispatched, the evaluator is not invoked, the     *)
(* retry counter does not change and nothing is added to the history.      *)
(***************************************************************************)
C5_NoSideEffectsAtAll ==
    [][(isSuccess \/ isFailure) =>
          UNCHANGED <<ai, threw, evalCalls, retries, history, planCalls>>]_vars

(***************************************************************************)
(* C5, amended: once the outcome is Success or Failure no further          *)
(* iteration is started: no planning call is made and no new task is       *)
(* executed; only the task in which the trigger action was dispatched is   *)
(* finished (its remaining actions, its one evaluation, the counter update *)
(* and its addition to the history), and after that, or after the retry    *)
(* budget fired, nothing is dispatched, evaluated, counted or recorded.    *)
(***************************************************************************)
C5_NoFurtherIteration ==
    [][(isSuccess \/ isFailure) =>
          /\ planCalls' = planCalls
          /\ pc' \notin PlanningPcs
          /\ (pc = "executeTask" => task' \in {task, NoTask})
          /\ (pc # "executeTask" =>
                UNCHANGED <<task, ai, threw, lastCalls, triggers, evalCalls,
                            verdicts, retries, history>>)]_vars

\* A task dispatched a trigger action, was evaluated and recorded, and run()
\* has returned.
C5_Witness ==
    /\ pc = "resolved"
    /\ triggers # <<>>
    /\ planCalls = 2
    /\ evalCalls = 2
    /\ Len(history) = 2

(***************************************************************************)
(* C6: a dispatched triggerSuccess{reason: r} makes run() return           *)
(* {success, r}.  (The code returns the reason of a later triggerFailure   *)
(* of the same task.)                                                      *)
(***************************************************************************)
C6_TriggerSuccessDecides ==
    \A i \in DOMAIN triggers :
        (pc = "resolved" /\ triggers[i].name = "triggerSuccess") =>
            result = [status |-> "success", reason |-> triggers[i].reason]

(***************************************************************************)
(* C7: the outcome is Success only if a triggerSuccess was dispatched, and *)
(* Failure only if a triggerFailure was dispatched or the retry-budget     *)
(* check fired; a verdict of the evaluator alone leaves the loop running.  *)
(***************************************************************************)
C7_OnlyTriggersOrBudget ==
    /\ isSuccess => Dispatched("triggerSuccess")
    /\ isFailure =>
          \/ Dispatched("triggerFailure")
          \/ /\ result = MaxRetriesResult
             /\ reason = "Max retries reached"
             /\ TrailingFalse(verdicts) >= maxRetries

\* A task without trigger action was evaluated as completed: still running.
C7_Witness ==
    /\ pc = "loop"
    /\ verdicts = <<TRUE>>
    /\ triggers = <<>>
    /\ ~isSuccess
    /\ ~isFailure
    /\ result = NoResult

(***************************************************************************)
(* C8: a failing action does not abort its task: while a task is executed  *)
(* every action before the loop position was attempted (whether or not it  *)
(* threw), the position never skips, the evaluator has not been invoked on *)
(* the task before all actions were attempted and is invoked once after,   *)
(* and the body of run() never stops on a failed action.                   *)
(***************************************************************************)
C8_FailingActionDoesNotAbort ==
    /\ pc = "executeTask" =>
          /\ ai \in 1..(Len(task.actions) + 1)
          /\ Len(threw) = ai - 1
          /\ evalCalls = planCalls - 1
    /\ (pc = "loop" /\ planCalls > 0) => evalCalls = planCalls
    /\ (pc = "rejected" /\ task # NoTask) =>
          /\ ai = Len(task.actions) + 1
          /\ evalCalls = planCalls

\* The first action failed, the second was still attempted and the
\* evaluator is being asked.
C8_Witness ==
    /\ pc = "executeTask"
    /\ Len(task.actions) = 2
    /\ threw = <<TRUE, FALSE>>
    /\ ai = 3
(***************************************************************************)
(* C9: what the loop does with a plan that failed to parse.                *)
(***************************************************************************)
KeepTryingTask(id) ==
    [id |-> id, goal |-> "Keep trying", actions |-> <<>>, status |-> "Pending",
     resultReason |-> ""]

\* defineNextTask has returned the Pending "Keep trying" task without
\* actions, nothing was dispatched for it and the evaluator is being asked.
C9_FallbackShape ==
    (pc = "executeTask" /\ ~planOk) =>
        /\ task = KeepTryingTask(planCalls)
        /\ ai = 1
        /\ threw = <<>>
        /\ lastCalls = <<>>
        /\ result = NoResult

\* The failure of the plan provider is caught, and the evaluated fallback
\* task is what the history receives.
C9_FallbackStep ==
    /\ pc = "invokeAndParse" => pc' \in {"invokeAndParse", "executeTask"}
    /\ (pc = "executeTask" /\ ~planOk /\ pc' = "loop") =>
          /\ Len(verdicts') = Len(verdicts) + 1
          /\ history' = Append(history,
                [id |-> planCalls, goal |-> "Keep trying",
                 status |-> IF verdicts'[Len(verdicts')] THEN "Completed" ELSE "Failed",
                 resultReason |-> "judged"])

(***************************************************************************)
(* C9, as claimed: the plan provider failing yields the Pending "Keep      *)
(* trying" task without actions, nothing is dispatched, the failure is not *)
(* surfaced, and the evaluation of that task makes the retry counter grow  *)
(* by 1.                                                                   *)
(***************************************************************************)
C9_FallbackConsumesSlot ==
    /\ []C9_FallbackShape
    /\ [][C9_FallbackStep]_vars
    /\ [][(pc = "executeTask" /\ ~planOk /\ verdicts' # verdicts) =>
             retries' = retries + 1]_vars

(***************************************************************************)
(* C9, amended: as claimed, except that the evaluation of the "Keep        *)
(* trying" task makes the retry counter grow by 1 only when the evaluator  *)
(* returns isCompleted=false; when it returns isCompleted=true the counter *)
(* is set to 0.                                                            *)
(***************************************************************************)
C9_FallbackIsEvaluated ==
    /\ []C9_FallbackShape
    /\ [][C9_FallbackStep]_vars
    /\ [][(pc = "executeTask" /\ ~planOk /\ verdicts' # verdicts) =>
             retries' = IF verdicts'[Len(verdicts')] THEN 0 ELSE retries + 1]_vars

C9_Witness ==
    /\ pc = "loop"
    /\ maxRetries = 2
    /\ history = <<[id |-> 1, goal |-> "Keep trying", status |-> "Failed",
                    resultReason |-> "judged"]>>
    /\ retries = 1

(***************************************************************************)
(* C10: when every collaborator call returns, run() resolves no later than *)
(* the iteration whose task dispatched a trigger action or whose           *)
(* evaluation was the maxRetries-th consecutive isCompleted=false,         *)
(* whichever comes first, and no planning call is made after that point:   *)
(* the number of iterations is the position of that task.                  *)
(***************************************************************************)
LoopMustStop == triggers # <<>> \/ TrailingFalse(verdicts) >= maxRetries

C10_StopsInTime ==
    /\ pc \in PlanningPcs =>
          /\ ~LoopMustStop
          /\ planCalls = Len(verdicts) + 1
    /\ pc = "resolved" =>
          /\ LoopMustStop
          /\ planCalls = Len(verdicts)
          /\ \A i \in 0..(Len(verdicts) - 1) :
                TrailingFalse(SubSeq(verdicts, 1, i)) < maxRetries

\* The number of steps still to take once the loop must stop: the remaining
\* actions of the task, its evaluation (which leaves a progress report
\* behind), the exit of the loop, and the end of an outstanding report.
StepsLeft ==
    (IF progressPending THEN 1 ELSE 0) +
    CASE pc = "created" -> 3
      [] pc = "setEndGoal" -> 2
      [] pc = "loop" -> 1
      [] pc = "executeTask" -> Len(task.actions) - ai + 4
      [] OTHER -> 0

\* C10: the loop stops in time (C10_StopsInTime), and once the loop must
\* stop, run() is never stuck before it has resolved, and
\* every step brings it closer to resolving: as the thread of control is
\* always resumed (the fairness of SpecReturning), run() resolves within
\* StepsLeft steps.
C10_BoundedTermination ==
    /\ []C10_StopsInTime
    /\ []((LoopMustStop /\ pc # "resolved") => ENABLED NextReturning)
    /\ [][LoopMustStop => (StepsLeft' < StepsLeft /\ StepsLeft' >= 0)]_vars

\* Returned after the second iteration, whose task dispatched a trigger.
C10_Witness ==
    /\ pc = "resolved"
    /\ maxRetries = 2
    /\ verdicts = <<FALSE, TRUE>>
    /\ triggers # <<>>
    /\ planCalls = 2

(***************************************************************************)
(* C11: the first launch().                                                *)
(***************************************************************************)
LoopPcs == PlanningPcs \cup {"loop", "executeTask", "resolved", "rejected"}

\* Browser launch at startUrl, then setEndGoal(goal), then run(): nothing of
\* the loop happens before both have completed, and a failing browser launch
\* leaves the end goal unset and the loop unentered.
C11_LaunchOrder ==
    /\ browserUrl = "" => endGoal = ""
    /\ (browserUrl = "" \/ endGoal = "") =>
          /\ pc \in {"created", "setEndGoal", "launchFailed"}
          /\ planCalls = 0
          /\ evalCalls = 0
          /\ triggers = <<>>
          /\ history = <<>>
          /\ task = NoTask
          /\ lastCalls = <<>>
    /\ (pc = "created" /\ result = NoResult) => browserUrl = ""
    /\ (pc = "setEndGoal" /\ result = NoResult) =>
          (browserUrl = "startUrl" /\ endGoal = "")
    /\ (pc \in LoopPcs /\ result = NoResult) =>
          (browserUrl = "startUrl" /\ endGoal = "initialPrompt")

(***************************************************************************)
(* C11, as claimed: launch() performs browser launch at startUrl,          *)
(* setEndGoal(goal) and run() in this order, a failing browser launch is   *)
(* propagated with neither setEndGoal nor a loop iteration happening, and  *)
(* launch() fails in no other case: when it has failed, the browser was    *)
(* not launched.                                                           *)
(***************************************************************************)
C11_FailsOnlyOnBrowser ==
    /\ C11_LaunchOrder
    /\ (pc = "launchFailed" /\ result = NoResult) => browserUrl = ""

(***************************************************************************)
(* C11, amended: the order and the propagated browser failure as claimed;  *)
(* launch() fails when the browser fails to launch or when setEndGoal      *)
(* throws, and in either case before run() is entered: no planning, no     *)
(* dispatch, no evaluation and no result.                                  *)
(***************************************************************************)
C11_LaunchThenRun ==
    /\ C11_LaunchOrder
    /\ (pc = "launchFailed" /\ result = NoResult) =>
          /\ endGoal = ""
          /\ planCalls = 0
          /\ evalCalls = 0
          /\ ~isSuccess /\ ~isFailure

\* The first planning call is under way: the browser is at startUrl and the
\* end goal is recorded.
C11_Witness ==
    /\ pc = "invokeAndParse"
    /\ planCalls = 1
    /\ browserUrl = "startUrl"
    /\ endGoal = "initialPrompt"
    /\ result = NoResult

(***************************************************************************)
(* C12: every planned task is mutated once and then recorded once: a task  *)
(* is Pending until its evaluation; the history holds no Pending task,     *)
(* holds the tasks in planning order without duplicates, each Completed or *)
(* Failed according to its verdict with the evaluator's reason, and its    *)
(* length is the number of evaluator calls made.  (When the evaluator or   *)
(* taskManager.add fails, the task is never recorded.)                     *)
(***************************************************************************)
C12_EveryTaskRecordedOnce ==
    /\ Len(history) = evalCalls
    /\ Len(history) = Len(verdicts)
    /\ \A i \in DOMAIN history :
          /\ history[i].id = i
          /\ history[i].status = IF verdicts[i] THEN "Completed" ELSE "Failed"
          /\ history[i].resultReason = "judged"
    /\ pc = "executeTask" => (task.status = "Pending" /\ task.id = Len(history) + 1)

(***************************************************************************)
(* C13: every action dispatch is bracketed: the calls of an executeAction, *)
(* including one whose dispatch fails, begin with the "Performing action"  *)
(* notification and end with the "Action done" notification.  (The code    *)
(* skips the "Action done" notification when the dispatch fails.)          *)
(***************************************************************************)
C13_DispatchIsBracketed ==
    lastCalls # <<>> =>
        /\ lastCalls[1] = "reportAction"
        /\ lastCalls[Len(lastCalls)] = "reportActionDone"

(***************************************************************************)
(* C14: the loop is strictly sequential: the progress notification emitted *)
(* at the end of a task's evaluation has completed before the next         *)
(* iteration's planning or execution begins, so no collaborator call is    *)
(* ever made while another is outstanding.  (The code does not await that  *)
(* notification.)                                                          *)
(***************************************************************************)
C14_StrictlySequential ==
    progressPending => pc \notin PlanningPcs \cup {"executeTask"}

(***************************************************************************)
(* C15: the plan provider fails on every call.                             *)
(***************************************************************************)
AllPlansFailed ==
    /\ \A i \in DOMAIN history : history[i].goal = "Keep trying"
    /\ pc = "executeTask" => ~planOk

(***************************************************************************)
(* C15, as claimed: when the plan provider fails on every call and all     *)
(* other collaborators return, run() ends with {failure, "Max retries      *)
(* reached"} after at most maxRetries iterations, for every evaluator      *)
(* behaviour.                                                              *)
(***************************************************************************)
C15_AlwaysWithinBudget ==
    AllPlansFailed =>
        /\ planCalls <= maxRetries
        /\ pc = "resolved" => result = MaxRetriesResult

(***************************************************************************)
(* C15, amended: when the plan provider fails on every call, all other     *)
(* collaborators return and the evaluator returns isCompleted=false on     *)
(* every "Keep trying" task, each iteration adds 1 to the retry counter,   *)
(* run() is never stuck before it has resolved, it resolves after exactly  *)
(* maxRetries iterations, and to {failure, "Max retries reached"}.         *)
(***************************************************************************)
C15_BudgetEndsFallbackLoop ==
    (AllPlansFailed /\ \A i \in DOMAIN verdicts : ~verdicts[i]) =>
        /\ planCalls <= maxRetries
        /\ retries = Len(verdicts)
        /\ pc # "resolved" => ENABLED NextReturning
        /\ pc = "resolved" =>
              /\ result = MaxRetriesResult
              /\ planCalls = maxRetries
              /\ Len(history) = maxRetries

\* Two failed plans, two "Keep trying" tasks judged not completed, and the
\* budget of 2 ended the run.
C15_Witness ==
    /\ pc = "resolved"
    /\ maxRetries = 2
    /\ planCalls = 2
    /\ Len(history) = 2
    /\ \A i \in DOMAIN history : history[i].goal = "Keep trying"
    /\ verdicts = <<FALSE, FALSE>>
    /\ result = MaxRetriesResult

(***************************************************************************)
(* C16: the dispatch table of the indexed actions.                         *)
(***************************************************************************)
ClickElementTable ==
    <<"resetHighlightElements", "highlightElementPointer", "mouseClick",
      "resetHighlightElements">>

FillInputTable ==
    <<"highlightElementPointer", "fillInput", "resetHighlightElements">>

IsPrefix(s, t) == Len(s) <= Len(t) /\ s = SubSeq(t, 1, Len(s))

\* The calls an indexed action with dispatch table tbl has made.
IndexedCalls(calls, didThrow, tbl) ==
    /\ Len(calls) >= 2
    /\ calls[1] = "reportAction"
    /\ calls[2] \in {"getIndexSelector:coordinates", "getIndexSelector:null"}
    /\ calls[2] = "getIndexSelector:null" => (Len(calls) = 2 /\ didThrow)
    /\ (calls[2] = "getIndexSelector:coordinates" /\ ~didThrow) =>
          calls = <<"reportAction", "getIndexSelector:coordinates">> \o tbl
                    \o <<"reportActionDone">>
    /\ (calls[2] = "getIndexSelector:coordinates" /\ didThrow) =>
          /\ Len(calls) > 2
          /\ IsPrefix(SubSeq(calls, 3, Len(calls)), tbl)

(***************************************************************************)
(* C16: an indexed action follows the dispatch table: with its index       *)
(* resolved, clickElement makes the calls clear highlights, highlight      *)
(* target, click, clear highlights and fillInput the calls highlight       *)
(* target, type text, clear highlights, in that order (up to the first of  *)
(* them that fails, all of them when none does); with its index not        *)
(* resolved it makes no browser or DOM call at all, and that failure       *)
(* affects this action only: the outcome, the retry counter and the        *)
(* history are untouched and the loop moves on to the next action.         *)
(***************************************************************************)
C16_IndexedDispatchTable ==
    [][(pc = "executeTask" /\ ai <= Len(task.actions) /\ ai' # ai
            /\ task.actions[ai].name \in {"clickElement", "fillInput"}) =>
          /\ IndexedCalls(lastCalls', threw'[ai],
                IF task.actions[ai].name = "clickElement"
                THEN ClickElementTable ELSE FillInputTable)
          /\ ai' = ai + 1
          /\ pc' = "executeTask"
          /\ Len(threw') = ai
          /\ UNCHANGED <<task, isSuccess, isFailure, reason, retries, history,
                         triggers, evalCalls, planCalls, result>>]_vars

\* A clickElement whose index did not resolve, then a fillInput that ran
\* through its table.
C16_Witness ==
    /\ pc = "executeTask"
    /\ Len(task.actions) = 2
    /\ task.actions[1].name = "clickElement"
    /\ task.actions[2].name = "fillInput"
    /\ threw = <<TRUE, FALSE>>
    /\ lastCalls = <<"reportAction", "getIndexSelector:coordinates",
                     "highlightElementPointer", "fillInput",
                     "resetHighlightElements", "reportActionDone">>

(***************************************************************************)
(* C17: 0 <= consecutiveFailures <= maxRetries in every state, and a       *)
(* planning call, an action dispatch or an evaluator call happens only in  *)
(* an iteration that started with consecutiveFailures < maxRetries and     *)
(* with the outcome still Running: during planning the outcome is Running, *)
(* and during execution it is set only by a trigger action of the task     *)
(* being executed.                                                         *)
(***************************************************************************)
C17_CounterWithinBudget ==
    /\ retries \in 0..maxRetries
    /\ pc \in PlanningPcs =>
          /\ retries < maxRetries
          /\ ~isSuccess /\ ~isFailure
    /\ pc = "executeTask" =>
          /\ retries < maxRetries
          /\ (isSuccess \/ isFailure) =>
                \E i \in 1..(ai - 1) :
                    task.actions[i].name \in {"triggerSuccess", "triggerFailure"}
    /\ planCalls > 0 => maxRetries > 0

\* One failed evaluation under a budget of 2, and the next task is being
\* executed.
C17_Witness ==
    /\ pc = "executeTask"
    /\ maxRetries = 2
    /\ retries = 1
    /\ ai = 2
    /\ ~isSuccess /\ ~isFailure

(***************************************************************************)
(* C18: a trigger action takes precedence over the retry budget: when a    *)
(* trigger action was dispatched, also in a task whose evaluation brought  *)
(* consecutiveFailures to maxRetries, run() returns the status and reason  *)
(* set by the trigger actions and not "Max retries reached", which is      *)
(* returned only when no trigger action was dispatched in the whole run.   *)
(***************************************************************************)
C18_TriggerBeatsBudget ==
    /\ (result # NoResult /\ triggers # <<>>) =>
          /\ result = TriggerResult
          /\ result.reason # "Max retries reached"
          /\ reason # "Max retries reached"
    /\ result = MaxRetriesResult => triggers = <<>>

\* The only task dispatched a trigger action and was judged not completed,
\* which exhausted a budget of 1.
C18_Witness ==
    /\ pc = "resolved"
    /\ maxRetries = 1
    /\ verdicts = <<FALSE>>
    /\ retries = 1
    /\ triggers # <<>>
    /\ result.reason \in {"done", "gave up"}

(***************************************************************************)
(* C19: run() returns status success if and only if a triggerSuccess       *)
(* action was dispatched, also when a triggerFailure was dispatched in the *)
(* same task before or after it; and when trigger actions were dispatched  *)
(* the returned reason is the reason of the last of them, whichever kind   *)
(* it was.                                                                 *)
(***************************************************************************)
C19_SuccessIffTriggerSuccess ==
    /\ isSuccess <=> \E i \in DOMAIN triggers : triggers[i].name = "triggerSuccess"
    /\ result # NoResult =>
          /\ result.status = "success" <=>
                \E i \in DOMAIN triggers : triggers[i].name = "triggerSuccess"
          /\ triggers # <<>> =>
                result.reason = (IF triggers[Len(triggers)].name = "triggerSuccess"
                                 THEN "done" ELSE "gave up")

\* triggerSuccess, then triggerFailure in the same task: success, with the
\* reason of the triggerFailure.
C19_Witness ==
    /\ pc = "resolved"
    /\ Len(triggers) = 2
    /\ triggers[1].name = "triggerSuccess"
    /\ triggers[2].name = "triggerFailure"
    /\ result = [status |-> "success", reason |-> "gave up"]

(***************************************************************************)
(* C20: the agent is single-use: after run() has returned a result, the    *)
(* outcome flags and the retry counter are never reset, and every later    *)
(* call of run(), directly or through launch() with a new goal, returns    *)
(* the same status and reason at once: its loop condition is false on      *)
(* entry, and no planning call, action dispatch or evaluator call is made  *)
(* and the task history does not change.                                   *)
(***************************************************************************)
C20_SingleUse ==
    /\ [](result # NoResult =>
            /\ isSuccess \/ isFailure
            /\ result = [status |-> IF isSuccess THEN "success" ELSE "failure",
                         reason |-> reason]
            /\ pc \in {"resolved", "loop", "created", "setEndGoal", "launchFailed"})
    /\ [][result # NoResult =>
            UNCHANGED <<result, isSuccess, isFailure, reason, retries, planCalls,
                        evalCalls, verdicts, triggers, history, task, ai, threw,
                        lastCalls>>]_vars

\* launch() was called again with another goal and has returned: the goal
\* was recorded, one task is in the history as before.
C20_Witness ==
    /\ pc = "resolved"
    /\ endGoal = "otherPrompt"
    /\ browserUrl = "otherUrl"
    /\ result = MaxRetriesResult
    /\ planCalls = 1
    /\ Len(history) = 1
====
